---- MODULE Spec2Model ----
(***************************************************************************)
(* Model of collatz.py: the Collatz sequence generators, the metrics       *)
(* derived from them and the up-tree expansion.  A caller session holds    *)
(* one integer argument and calls the module's functions one after the     *)
(* other; every loop iteration of a function is one step of the model.     *)
(* Python's // and % on integers are floor division and floor modulus,     *)
(* which is what \div and % are here.  A float result a / b is kept as the *)
(* exact fraction <<a, b>>.                                                *)
(***************************************************************************)
EXTENDS Integers, Sequences, FiniteSets, TLC

\* Bounds of the exploration.
MaxN == 12        \* largest argument handed to a function
MaxNeg == 2       \* arguments range over -MaxNeg .. MaxN
MaxDepth == 4     \* largest number of steps of a Tree
MaxCalls == 2     \* calls made in one caller session
MaxIter == 30     \* loop iterations explored before a loop is cut off

Ops == {"isPo2", "colgen", "redcolgen", "C", "T", "tst", "st", "residue",
        "completeness", "CtoPo2", "uptree", "Tree"}

NoLast == [op |-> "none", steps |-> 0, ret |-> <<>>, err |-> "none"]

VARIABLES
    arg,         \* the integer the caller passes as n (as root for a Tree)
    calls,       \* number of calls the caller has started
    last,        \* what the caller keeps of the call that returned before
    op,          \* the function being executed
    pc,          \* position in the function being executed
    n,           \* local n of the function (of the generator for C, T, tst)
    n_start,     \* local n_start of st and residue
    k,           \* local k of st
    e,           \* local e of residue and completeness
    o,           \* local o of residue and completeness
    seq_list,    \* local seq_list of CtoPo2; the values a generator yielded
    isPo2_n,     \* local n of isPo2
    isPo2_ret,   \* value isPo2 returned to CtoPo2
    self_root,   \* Tree.root
    self_steps,  \* Tree.steps
    tree,        \* local tree of Tree.tree
    branches,    \* local branches of Tree.tree
    nextbranch,  \* local nextbranch of Tree.tree
    step,        \* loop variable of "for step in range(1, steps + 1)"
    idx,         \* position of "numbers" in branches[-1]
    ret,         \* value returned by the call
    err          \* exception raised by the call, "none" if none

vars == <<arg, calls, last, op, pc, n, n_start, k, e, o, seq_list, isPo2_n,
          isPo2_ret, self_root, self_steps, tree, branches, nextbranch, step,
          idx, ret, err>>

locals == <<n, n_start, k, e, o, seq_list, isPo2_n, isPo2_ret, self_root,
            self_steps, tree, branches, nextbranch, step, idx>>

-----------------------------------------------------------------------------
\* Pure pieces of the code.

\* colstep with the odd branch miscomputed as 3n - 1.
colstep_minus(m) == IF m % 2 = 0 THEN m \div 2 ELSE m * 3 - 1

\* colgen, CtoPo2: the body of the loop, one raw Collatz step.
colstep(m) == IF m % 2 = 0 THEN m \div 2 ELSE m * 3 + 1

\* redcolgen, st, residue, completeness: one reduced step.
redstep(m) == IF m % 2 = 0 THEN m \div 2 ELSE (m * 3 + 1) \div 2

\* uptree testing n % 3 == 1 in place of n % 6 == 4.
uptree_mod3(m) == IF m % 3 = 1 THEN <<m * 2, (m - 1) \div 3>> ELSE <<m * 2>>

\* uptree(n): [2n], and (n - 1) // 3 as well when n % 6 == 4.
uptree(m) == IF m % 6 = 4 THEN <<m * 2, (m - 1) \div 3>> ELSE <<m * 2>>

\* a ** b for b >= 0.
RECURSIVE Pow(_, _)
Pow(a, b) == IF b = 0 THEN 1 ELSE a * Pow(a, b - 1)

\* sorted(list): ascending, every occurrence kept.
RECURSIVE Insert(_, _)
Insert(x, s) ==
    IF s = <<>> THEN <<x>>
    ELSE IF x <= Head(s) THEN <<x>> \o s
    ELSE <<Head(s)>> \o Insert(x, Tail(s))

RECURSIVE sorted(_)
sorted(s) == IF s = <<>> THEN <<>> ELSE Insert(Head(s), sorted(Tail(s)))

\* The entry point of each function.
Entry(f) ==
    CASE f = "isPo2" -> "isPo2_26"
      [] f \in {"colgen", "C", "tst"} -> "colgen_45"
      [] f \in {"redcolgen", "T"} -> "redcolgen_67"
      [] f = "st" -> "st_109"
      [] f = "residue" -> "residue_142"
      [] f = "completeness" -> "completeness_168"
      [] f = "CtoPo2" -> "CtoPo2_190"
      [] f = "uptree" -> "uptree_210"
      [] f = "Tree" -> "Tree_init"

-----------------------------------------------------------------------------
Init ==
    /\ arg \in (0 - MaxNeg) .. MaxN
    /\ calls = 0
    /\ last = NoLast
    /\ op = "none"
    /\ pc = "idle"
    /\ n = 0 /\ n_start = 0 /\ k = 0 /\ e = 0 /\ o = 0
    /\ seq_list = <<>>
    /\ isPo2_n = 0 /\ isPo2_ret = FALSE
    /\ self_root = 0 /\ self_steps = 0
    /\ tree = <<>> /\ branches = <<>> /\ nextbranch = <<>>
    /\ step = 0 /\ idx = 0
    /\ ret = <<>>
    /\ err = "none"

\* The caller calls f(arg); the frame of the call starts fresh.
Call ==
    /\ pc = "idle"
    /\ calls < MaxCalls
    /\ \E f \in Ops :
        /\ op' = f
        /\ pc' = Entry(f)
    /\ calls' = calls + 1
    /\ n' = arg /\ n_start' = 0 /\ k' = 0 /\ e' = 0 /\ o' = 0
    /\ seq_list' = <<>>
    /\ isPo2_n' = IF op' = "isPo2" THEN arg ELSE 0
    /\ isPo2_ret' = FALSE
    /\ self_root' = 0 /\ self_steps' = 0
    /\ tree' = <<>> /\ branches' = <<>> /\ nextbranch' = <<>>
    /\ step' = 0 /\ idx' = 0
    /\ ret' = <<>>
    /\ err' = "none"
    /\ UNCHANGED <<arg, last>>

\* The call has returned or raised; the caller keeps its outcome.
Return ==
    /\ pc \in {"done", "raised"}
    /\ last' = [op |-> op, steps |-> self_steps, ret |-> ret, err |-> err]
    /\ pc' = "idle"
    /\ UNCHANGED <<arg, calls, op, locals, ret, err>>

-----------------------------------------------------------------------------
\* isPo2

\* while n % 2 == 0: n = n // 2
isPo2_loop ==
    /\ pc = "isPo2_26"
    /\ isPo2_n % 2 = 0
    /\ isPo2_n' = isPo2_n \div 2
    /\ UNCHANGED <<arg, calls, last, op, pc, n, n_start, k, e, o, seq_list,
                   isPo2_ret, self_root, self_steps, tree, branches,
                   nextbranch, step, idx, ret, err>>

\* if n == 1: return True, else: return False
isPo2_result(m) == m = 1

isPo2_return ==
    /\ pc = "isPo2_26"
    /\ isPo2_n % 2 # 0
    /\ IF op = "CtoPo2"
       THEN /\ isPo2_ret' = isPo2_result(isPo2_n)
            /\ pc' = "CtoPo2_192"
            /\ ret' = ret
       ELSE /\ ret' = isPo2_result(isPo2_n)
            /\ pc' = "done"
            /\ isPo2_ret' = isPo2_ret
    /\ UNCHANGED <<arg, calls, last, op, n, n_start, k, e, o, seq_list,
                   isPo2_n, self_root, self_steps, tree, branches,
                   nextbranch, step, idx, err>>

-----------------------------------------------------------------------------
\* colgen and its consumers C and tst

\* yield n
colgen_first ==
    /\ pc = "colgen_45"
    /\ seq_list' = Append(seq_list, n)
    /\ pc' = "colgen_46"
    /\ UNCHANGED <<arg, calls, last, op, n, n_start, k, e, o, isPo2_n,
                   isPo2_ret, self_root, self_steps, tree, branches,
                   nextbranch, step, idx, ret, err>>

\* while n > 1: n = n // 2 or n * 3 + 1; yield n
colgen_next ==
    /\ pc = "colgen_46"
    /\ n > 1
    /\ Len(seq_list) < MaxIter
    /\ n' = colstep(n)
    /\ seq_list' = Append(seq_list, n')
    /\ UNCHANGED <<arg, calls, last, op, pc, n_start, k, e, o, isPo2_n,
                   isPo2_ret, self_root, self_steps, tree, branches,
                   nextbranch, step, idx, ret, err>>

\* The generator is exhausted; a caller iterating colgen(n) has seen it all.
colgen_return ==
    /\ pc = "colgen_46"
    /\ ~(n > 1)
    /\ op = "colgen"
    /\ ret' = seq_list
    /\ pc' = "done"
    /\ UNCHANGED <<arg, calls, last, op, locals, err>>

\* return list(colgen(n))
C_return ==
    /\ pc = "colgen_46"
    /\ ~(n > 1)
    /\ op = "C"
    /\ ret' = seq_list
    /\ pc' = "done"
    /\ UNCHANGED <<arg, calls, last, op, locals, err>>

\* tst counting the steps taken in place of the elements yielded.
tst_result_steps(s) == Len(s) - 1

\* return len(list(colgen(n)))
tst_result(s) == Len(s)

tst_return ==
    /\ pc = "colgen_46"
    /\ ~(n > 1)
    /\ op = "tst"
    /\ ret' = tst_result(seq_list)
    /\ pc' = "done"
    /\ UNCHANGED <<arg, calls, last, op, locals, err>>

-----------------------------------------------------------------------------
\* redcolgen and its consumer T

\* yield n
redcolgen_first ==
    /\ pc = "redcolgen_67"
    /\ seq_list' = Append(seq_list, n)
    /\ pc' = "redcolgen_68"
    /\ UNCHANGED <<arg, calls, last, op, n, n_start, k, e, o, isPo2_n,
                   isPo2_ret, self_root, self_steps, tree, branches,
                   nextbranch, step, idx, ret, err>>

\* while n > 1: n = n // 2 or (n * 3 + 1) // 2; yield n
redcolgen_next ==
    /\ pc = "redcolgen_68"
    /\ n > 1
    /\ Len(seq_list) < MaxIter
    /\ n' = redstep(n)
    /\ seq_list' = Append(seq_list, n')
    /\ UNCHANGED <<arg, calls, last, op, pc, n_start, k, e, o, isPo2_n,
                   isPo2_ret, self_root, self_steps, tree, branches,
                   nextbranch, step, idx, ret, err>>

\* The generator is exhausted; a caller iterating redcolgen(n) has seen it all.
redcolgen_return ==
    /\ pc = "redcolgen_68"
    /\ ~(n > 1)
    /\ op = "redcolgen"
    /\ ret' = seq_list
    /\ pc' = "done"
    /\ UNCHANGED <<arg, calls, last, op, locals, err>>

\* return list(redcolgen(n))
T_return ==
    /\ pc = "redcolgen_68"
    /\ ~(n > 1)
    /\ op = "T"
    /\ ret' = seq_list
    /\ pc' = "done"
    /\ UNCHANGED <<arg, calls, last, op, locals, err>>

-----------------------------------------------------------------------------
\* st

\* if n % 2 == 0: return 1
st_even ==
    /\ pc = "st_109"
    /\ n % 2 = 0
    /\ ret' = 1
    /\ pc' = "done"
    /\ UNCHANGED <<arg, calls, last, op, locals, err>>

\* k = 0; n_start = n
st_init ==
    /\ pc = "st_109"
    /\ n % 2 # 0
    /\ k' = 0
    /\ n_start' = n
    /\ pc' = "st_115"
    /\ UNCHANGED <<arg, calls, last, op, n, e, o, seq_list, isPo2_n,
                   isPo2_ret, self_root, self_steps, tree, branches,
                   nextbranch, step, idx, ret, err>>

\* st without the second increment of the odd branch.
st_count_single(m) == 1

\* What one iteration adds to k: 1, and 1 more when n was odd.
st_count(m) == IF m % 2 = 0 THEN 1 ELSE 2

\* One iteration of "while not (n == 1)"; the even branch breaks out of the
\* loop when the halved value is below n_start.
st_loop ==
    /\ pc = "st_115"
    /\ ~(n = 1)
    /\ k < MaxIter
    /\ k' = k + st_count(n)
    /\ n' = redstep(n)
    /\ pc' = IF n % 2 = 0 /\ n' < n_start THEN "st_125" ELSE "st_115"
    /\ UNCHANGED <<arg, calls, last, op, n_start, e, o, seq_list, isPo2_n,
                   isPo2_ret, self_root, self_steps, tree, branches,
                   nextbranch, step, idx, ret, err>>

\* return k
st_return ==
    /\ \/ pc = "st_125"
       \/ pc = "st_115" /\ n = 1
    /\ ret' = k
    /\ pc' = "done"
    /\ UNCHANGED <<arg, calls, last, op, locals, err>>

-----------------------------------------------------------------------------
\* residue

\* n_start = n; e = 0; o = 0
residue_init ==
    /\ pc = "residue_142"
    /\ n_start' = n
    /\ e' = 0
    /\ o' = 0
    /\ pc' = "residue_146"
    /\ UNCHANGED <<arg, calls, last, op, n, k, seq_list, isPo2_n, isPo2_ret,
                   self_root, self_steps, tree, branches, nextbranch, step,
                   idx, ret, err>>

\* What one iteration adds to o: 1 when n was odd.
odd_count(m) == IF m % 2 = 0 THEN 0 ELSE 1

\* One iteration of "while not (n == 1)".
residue_loop ==
    /\ pc = "residue_146"
    /\ ~(n = 1)
    /\ e < MaxIter
    /\ n' = redstep(n)
    /\ e' = e + 1
    /\ o' = o + odd_count(n)
    /\ UNCHANGED <<arg, calls, last, op, pc, n_start, k, seq_list, isPo2_n,
                   isPo2_ret, self_root, self_steps, tree, branches,
                   nextbranch, step, idx, ret, err>>

\* residue without the factor n_start in the divisor.
res_n_nostart(ee, oo, start) == <<Pow(2, ee), Pow(3, oo)>>

\* res_n = 2 ** e / (3 ** o * n_start)
res_n(ee, oo, start) == <<Pow(2, ee), Pow(3, oo) * start>>

\* return float(res_n); dividing by 0 raises ZeroDivisionError
residue_return ==
    /\ pc = "residue_146"
    /\ n = 1
    /\ IF res_n(e, o, n_start)[2] = 0
       THEN /\ err' = "ZeroDivisionError"
            /\ pc' = "raised"
            /\ ret' = ret
       ELSE /\ ret' = res_n(e, o, n_start)
            /\ pc' = "done"
            /\ err' = err
    /\ UNCHANGED <<arg, calls, last, op, locals>>

-----------------------------------------------------------------------------
\* completeness

\* e = 0; o = 0
completeness_init ==
    /\ pc = "completeness_168"
    /\ e' = 0
    /\ o' = 0
    /\ pc' = "completeness_171"
    /\ UNCHANGED <<arg, calls, last, op, n, n_start, k, seq_list, isPo2_n,
                   isPo2_ret, self_root, self_steps, tree, branches,
                   nextbranch, step, idx, ret, err>>

\* One iteration of "while not (n == 1)".
completeness_loop ==
    /\ pc = "completeness_171"
    /\ ~(n = 1)
    /\ e < MaxIter
    /\ n' = redstep(n)
    /\ e' = e + 1
    /\ o' = o + odd_count(n)
    /\ UNCHANGED <<arg, calls, last, op, pc, n_start, k, seq_list, isPo2_n,
                   isPo2_ret, self_root, self_steps, tree, branches,
                   nextbranch, step, idx, ret, err>>

\* completeness with the quotient inverted, e / o.
completeness_value_inverted(ee, oo) == <<ee, oo>>

\* completeness = o / e
completeness_value(ee, oo) == <<oo, ee>>

\* return float(completeness); dividing by 0 raises ZeroDivisionError
completeness_return ==
    /\ pc = "completeness_171"
    /\ n = 1
    /\ IF completeness_value(e, o)[2] = 0
       THEN /\ err' = "ZeroDivisionError"
            /\ pc' = "raised"
            /\ ret' = ret
       ELSE /\ ret' = completeness_value(e, o)
            /\ pc' = "done"
            /\ err' = err
    /\ UNCHANGED <<arg, calls, last, op, locals>>

-----------------------------------------------------------------------------
\* CtoPo2

\* seq_list = []
CtoPo2_init ==
    /\ pc = "CtoPo2_190"
    /\ seq_list' = <<>>
    /\ pc' = "CtoPo2_test"
    /\ UNCHANGED <<arg, calls, last, op, n, n_start, k, e, o, isPo2_n,
                   isPo2_ret, self_root, self_steps, tree, branches,
                   nextbranch, step, idx, ret, err>>

\* The loop condition calls isPo2(n).
CtoPo2_test ==
    /\ pc = "CtoPo2_test"
    /\ isPo2_n' = n
    /\ pc' = "isPo2_26"
    /\ UNCHANGED <<arg, calls, last, op, n, n_start, k, e, o, seq_list,
                   isPo2_ret, self_root, self_steps, tree, branches,
                   nextbranch, step, idx, ret, err>>

\* CtoPo2 appending n before the step is taken.
CtoPo2_body_early ==
    /\ pc = "CtoPo2_192"
    /\ ~isPo2_ret
    /\ Len(seq_list) < MaxIter
    /\ n' = colstep(n)
    /\ seq_list' = Append(seq_list, n)
    /\ pc' = "CtoPo2_test"
    /\ UNCHANGED <<arg, calls, last, op, n_start, k, e, o, isPo2_n,
                   isPo2_ret, self_root, self_steps, tree, branches,
                   nextbranch, step, idx, ret, err>>

\* isPo2(n) was false: n = n // 2 or 3 * n + 1; seq_list.append(n)
CtoPo2_body ==
    /\ pc = "CtoPo2_192"
    /\ ~isPo2_ret
    /\ Len(seq_list) < MaxIter
    /\ n' = colstep(n)
    /\ seq_list' = Append(seq_list, n')
    /\ pc' = "CtoPo2_test"
    /\ UNCHANGED <<arg, calls, last, op, n_start, k, e, o, isPo2_n,
                   isPo2_ret, self_root, self_steps, tree, branches,
                   nextbranch, step, idx, ret, err>>

\* isPo2(n) was true: return seq_list
CtoPo2_return ==
    /\ pc = "CtoPo2_192"
    /\ isPo2_ret
    /\ ret' = seq_list
    /\ pc' = "done"
    /\ UNCHANGED <<arg, calls, last, op, locals, err>>

-----------------------------------------------------------------------------
\* uptree called by the caller

uptree_return ==
    /\ pc = "uptree_210"
    /\ ret' = uptree(n)
    /\ pc' = "done"
    /\ UNCHANGED <<arg, calls, last, op, locals, err>>

-----------------------------------------------------------------------------
\* Tree

\* Tree(root, steps): self.root = root; self.steps = steps
Tree_init ==
    /\ pc = "Tree_init"
    /\ \E steps \in 0 .. MaxDepth :
        /\ self_root' = arg
        /\ self_steps' = steps
    /\ pc' = "tree_242"
    /\ UNCHANGED <<arg, calls, last, op, n, n_start, k, e, o, seq_list,
                   isPo2_n, isPo2_ret, tree, branches, nextbranch, step,
                   idx, ret, err>>

\* root = self.root; steps = self.steps; tree = [root]; branches = [[root]]
tree_begin ==
    /\ pc = "tree_242"
    /\ tree' = <<self_root>>
    /\ branches' = << <<self_root>> >>
    /\ step' = 1
    /\ pc' = "tree_247"
    /\ UNCHANGED <<arg, calls, last, op, n, n_start, k, e, o, seq_list,
                   isPo2_n, isPo2_ret, self_root, self_steps, nextbranch,
                   idx, ret, err>>

\* Tree.tree with nextbranch not emptied at the start of a step.
tree_for_step_keep ==
    /\ pc = "tree_247"
    /\ step <= self_steps
    /\ nextbranch' = nextbranch
    /\ idx' = 1
    /\ pc' = "tree_249"
    /\ UNCHANGED <<arg, calls, last, op, n, n_start, k, e, o, seq_list,
                   isPo2_n, isPo2_ret, self_root, self_steps, tree,
                   branches, step, ret, err>>

\* for step in range(1, steps + 1): nextbranch = []
tree_for_step ==
    /\ pc = "tree_247"
    /\ step <= self_steps
    /\ nextbranch' = <<>>
    /\ idx' = 1
    /\ pc' = "tree_249"
    /\ UNCHANGED <<arg, calls, last, op, n, n_start, k, e, o, seq_list,
                   isPo2_n, isPo2_ret, self_root, self_steps, tree,
                   branches, step, ret, err>>

\* nextbranch.extend(newnumbers)
extend(list, newnumbers) == list \o newnumbers

\* for numbers in branches[-1]: newnumbers = uptree(numbers); extend
tree_for_numbers ==
    /\ pc = "tree_249"
    /\ idx <= Len(branches[Len(branches)])
    /\ nextbranch' = extend(nextbranch, uptree(branches[Len(branches)][idx]))
    /\ idx' = idx + 1
    /\ UNCHANGED <<arg, calls, last, op, pc, n, n_start, k, e, o, seq_list,
                   isPo2_n, isPo2_ret, self_root, self_steps, tree,
                   branches, step, ret, err>>

\* tree.extend(nextbranch); branches.append(nextbranch)
tree_end_step ==
    /\ pc = "tree_249"
    /\ idx > Len(branches[Len(branches)])
    /\ tree' = extend(tree, nextbranch)
    /\ branches' = Append(branches, nextbranch)
    /\ step' = step + 1
    /\ pc' = "tree_247"
    /\ UNCHANGED <<arg, calls, last, op, n, n_start, k, e, o, seq_list,
                   isPo2_n, isPo2_ret, self_root, self_steps, nextbranch,
                   idx, ret, err>>

\* Tree.tree returning the flat list unsorted.
tree_result_unsorted(t, b) == <<t, b>>

\* return sorted(tree), branches
tree_result(t, b) == <<sorted(t), b>>

tree_return ==
    /\ pc = "tree_247"
    /\ step > self_steps
    /\ ret' = tree_result(tree, branches)
    /\ pc' = "done"
    /\ UNCHANGED <<arg, calls, last, op, locals, err>>

-----------------------------------------------------------------------------
Next ==
    \/ Call
    \/ Return
    \/ isPo2_loop
    \/ isPo2_return
    \/ colgen_first
    \/ colgen_next
    \/ colgen_return
    \/ C_return
    \/ tst_return
    \/ redcolgen_first
    \/ redcolgen_next
    \/ redcolgen_return
    \/ T_return
    \/ st_even
    \/ st_init
    \/ st_loop
    \/ st_return
    \/ residue_init
    \/ residue_loop
    \/ residue_return
    \/ completeness_init
    \/ completeness_loop
    \/ completeness_return
    \/ CtoPo2_init
    \/ CtoPo2_test
    \/ CtoPo2_body
    \/ CtoPo2_return
    \/ uptree_return
    \/ Tree_init
    \/ tree_begin
    \/ tree_for_step
    \/ tree_for_numbers
    \/ tree_end_step
    \/ tree_return

Spec == Init /\ [][Next]_vars
-----------------------------------------------------------------------------
\* Vocabulary of the properties.

Returned(f) == op = f /\ pc = "done"

Front(s) == SubSeq(s, 1, Len(s) - 1)

CountIn(v, s) == Cardinality({i \in DOMAIN s : s[i] = v})

OddsIn(s) == Cardinality({i \in DOMAIN s : s[i] % 2 = 1})

EvensIn(s) == Cardinality({i \in DOMAIN s : s[i] % 2 = 0})

\* b follows a under the Collatz map: a / 2 for even a, 3a + 1 for odd a.
StdPair(a, b) == IF a % 2 = 0 THEN 2 * b = a ELSE b = 3 * a + 1

\* b follows a under the reduced map: a / 2 for even a, (3a + 1) / 2 for odd a.
RedPair(a, b) == IF a % 2 = 0 THEN 2 * b = a ELSE 2 * b = 3 * a + 1

\* The value reached from m by j applications of the Collatz map.
RECURSIVE Raw(_, _)
Raw(j, m) ==
    IF j = 0 THEN m
    ELSE LET x == Raw(j - 1, m)
         IN  IF x % 2 = 0 THEN x \div 2 ELSE 3 * x + 1

IsPowerOfTwo(m) == \E j \in 0 .. 20 : m = 2 ^ j

\* The concatenation of uptree(x) for x in s, in the order of s.
RECURSIVE Preds(_)
Preds(s) == IF s = <<>> THEN <<>> ELSE uptree(Head(s)) \o Preds(Tail(s))

\* The concatenation of the sequences of b.
RECURSIVE Flat(_)
Flat(b) == IF b = <<>> THEN <<>> ELSE Head(b) \o Flat(Tail(b))

Ascending(s) == \A i \in 1 .. Len(s) - 1 : s[i] <= s[i + 1]

SameElements(s, t) ==
    /\ Len(s) = Len(t)
    /\ \A i \in DOMAIN s : CountIn(s[i], s) = CountIn(s[i], t)

Distinct(s) == \A i, j \in DOMAIN s : i # j => s[i] # s[j]

\* The sequence s satisfies what is said of a trajectory from a.
Trajectory(s, a, Pair(_, _)) ==
    /\ Len(s) >= 1
    /\ s[1] = a
    /\ s[Len(s)] = 1
    /\ \A i \in 1 .. Len(s) - 1 : s[i] # 1
    /\ \A i \in 1 .. Len(s) - 1 : Pair(s[i], s[i + 1])

-----------------------------------------------------------------------------
\* C1: for n >= 1, colgen(n), C(n), redcolgen(n) and T(n) are finite, start
\* with n, end with 1, hold 1 nowhere before the end, and every consecutive
\* pair follows the standard step (colgen, C) or the reduced step
\* (redcolgen, T).
C1_Trajectories ==
    arg >= 1 =>
        /\ pc \in {"colgen_46", "redcolgen_68"} => Len(seq_list) < MaxIter
        /\ Returned("colgen") \/ Returned("C")
              => Trajectory(ret, arg, StdPair)
        /\ Returned("redcolgen") \/ Returned("T")
              => Trajectory(ret, arg, RedPair)

C1_Witness ==
    /\ arg = 7
    /\ \/ Returned("C") /\ Len(ret) = 17
       \/ Returned("T") /\ Len(ret) = 12

C3_StIsRawStoppingTime ==
    arg >= 2 =>
        /\ op = "st" /\ pc = "st_115" /\ n # 1 => k < MaxIter
        /\ Returned("st") =>
              /\ ret >= 1
              /\ Raw(ret, arg) < arg
              /\ \A j \in 1 .. ret - 1 : Raw(j, arg) >= arg
              /\ arg % 2 = 0 => ret = 1

C3_Witness == Returned("st") /\ arg = 7 /\ ret = 11

\* C4: for n >= 1, uptree(n) lists exactly the positive integers the
\* Collatz map sends to n: 2n first, then (n - 1) / 3 if and only if
\* n % 6 = 4; it has one or two elements.
C4_UptreeIsPreimage ==
    arg >= 1 /\ Returned("uptree") =>
        /\ Len(ret) \in {1, 2}
        /\ ret[1] = 2 * arg
        /\ Len(ret) = 2 <=> arg % 6 = 4
        /\ Len(ret) = 2 => 3 * ret[2] + 1 = arg
        /\ {ret[i] : i \in DOMAIN ret}
              = {m \in 1 .. 2 * arg : Raw(1, m) = arg}

C4_Witness == Returned("uptree") /\ arg = 10 /\ ret = <<20, 3>>

\* C5: for root r >= 1 and depth d >= 0, Tree(r, d).tree() returns
\* (flat, branches) with d + 1 generations, branches[0] = [r], each later
\* generation the concatenation of uptree(x) over the one before, and flat
\* the ascending sort of all generations with duplicates kept; for root 1
\* and depth 3 the value 1 is in flat twice; depth 0 gives ([r], [[r]]).
C5_TreeResult ==
    arg >= 1 /\ Returned("Tree") =>
        LET flat == ret[1]
            gens == ret[2]
        IN  /\ Len(gens) = self_steps + 1
            /\ gens[1] = <<arg>>
            /\ \A g \in 2 .. Len(gens) : gens[g] = Preds(gens[g - 1])
            /\ Ascending(flat)
            /\ SameElements(flat, Flat(gens))
            /\ arg = 1 /\ self_steps = 3 => CountIn(1, flat) = 2
            /\ self_steps = 0 => ret = << <<arg>>, << <<arg>> >> >>

C5_Witness ==
    /\ Returned("Tree")
    /\ arg = 1
    /\ self_steps = 3
    /\ ret = << <<1, 1, 2, 4, 8>>, << <<1>>, <<2>>, <<4>>, <<8, 1>> >> >>

\* C6: completeness(1) raises a division-by-zero error, its loop having run
\* zero times with E = 0; for n >= 2 the loop ends with E >= 1, nothing is
\* raised and the result is O / E, E the number of reduced steps from n to 1
\* and O the number of those taken from an odd value.
C6_Completeness ==
    /\ arg >= 1 /\ op = "completeness" /\ pc = "completeness_171" /\ n # 1
          => e < MaxIter
    /\ arg = 1 /\ op = "completeness"
          => /\ e = 0
             /\ pc # "done"
             /\ pc = "raised" => err = "ZeroDivisionError"
    /\ arg >= 2 /\ op = "completeness"
          => /\ pc # "raised"
             /\ err = "none"
             /\ pc = "done" =>
                   /\ e >= 1
                   /\ ret = <<o, e>>
                   /\ last.op = "T" =>
                         /\ e = Len(last.ret) - 1
                         /\ o = OddsIn(Front(last.ret))

C6_Witness ==
    \/ arg = 1 /\ op = "completeness" /\ pc = "raised"
    \/ arg = 7 /\ Returned("completeness") /\ last.op = "T" /\ ret = <<5, 11>>

\* C7: for n >= 1, residue(n) returns 2^E / (3^O * n), E the number of even
\* and O the number of odd elements of C(n) without its final 1, so that
\* E + O = tst(n) - 1; E is the number of reduced steps and O the number of
\* those taken from an odd value; residue(1) is 1.0 with E = O = 0.
C7_Residue ==
    arg >= 1 =>
        /\ op = "residue" /\ pc = "residue_146" /\ n # 1 => e < MaxIter
        /\ op = "residue" => pc # "raised"
        /\ Returned("residue") =>
              /\ ret = <<2 ^ e, (3 ^ o) * arg>>
              /\ last.op = "C" =>
                    /\ e = EvensIn(Front(last.ret))
                    /\ o = OddsIn(Front(last.ret))
              /\ last.op = "tst" => e + o = last.ret - 1
              /\ last.op = "T" =>
                    /\ e = Len(last.ret) - 1
                    /\ o = OddsIn(Front(last.ret))
              /\ arg = 1 => e = 0 /\ o = 0 /\ ret = <<1, 1>>

C7_Witness ==
    /\ Returned("residue")
    /\ arg = 3
    /\ last.op = "C"
    /\ ret = <<32, 27>>

\* C8: for n >= 1, CtoPo2(n) holds the values the standard iteration visits
\* after n up to the first power of two: empty when n is a power of two,
\* otherwise ending with a power of two with none before it, and equal to
\* C(n) from position 1 up to that power of two.
C8_CtoPo2 ==
    arg >= 1 =>
        /\ op = "CtoPo2" /\ pc = "CtoPo2_192" /\ ~isPo2_ret
              => Len(seq_list) < MaxIter
        /\ Returned("CtoPo2") =>
              /\ IsPowerOfTwo(arg) => ret = <<>>
              /\ ~IsPowerOfTwo(arg) =>
                    /\ Len(ret) >= 1
                    /\ IsPowerOfTwo(ret[Len(ret)])
                    /\ \A i \in 1 .. Len(ret) - 1 : ~IsPowerOfTwo(ret[i])
              /\ last.op = "C" =>
                    /\ Len(ret) + 1 <= Len(last.ret)
                    /\ ret = SubSeq(last.ret, 2, Len(ret) + 1)

C8_Witness ==
    /\ Returned("CtoPo2")
    /\ arg = 6
    /\ last.op = "C"
    /\ ret = <<3, 10, 5, 16>>

\* C9: every operation called with a non-positive integer rejects it at its
\* boundary with an invalid-input error: it runs no loop iteration and
\* returns no value.
C9_RejectsNonPositive ==
    arg <= 0 /\ op # "none" =>
        \/ pc \in {Entry(f) : f \in Ops}
        \/ err # "none"

\* C10: for root r >= 1 and depth d >= 0, the values of one generation of
\* Tree(r, d).tree() are pairwise distinct, so a value is in the flat list
\* as many times as there are generations holding it.
C10_GenerationsDistinct ==
    arg >= 1 /\ Returned("Tree") =>
        LET flat == ret[1]
            gens == ret[2]
        IN  /\ \A g \in DOMAIN gens : Distinct(gens[g])
            /\ \A i \in DOMAIN flat :
                  CountIn(flat[i], flat)
                      = Cardinality({g \in DOMAIN gens :
                                        CountIn(flat[i], gens[g]) > 0})

C10_Witness ==
    /\ Returned("Tree")
    /\ arg = 4
    /\ self_steps = 4
    /\ ret[2][5] = <<64, 10, 8, 1>>
    /\ CountIn(4, ret[1]) = 2
====
